---- MODULE Spec2Model ----
(***************************************************************************)
(* Model of the CSV cleaning engine (clean_data.py) and of its two callers *)
(* (clean_data.main and data_processor.load_and_process_data).             *)
(*                                                                         *)
(* Text is a TLA+ string; Len, SubSeq and \o act on strings as on          *)
(* sequences of characters.  A cell is a record: missing, text, number or  *)
(* timestamp.  A column carries the pandas dtype that is_text_series       *)
(* inspects.                                                               *)
(***************************************************************************)
EXTENDS Integers, Sequences, FiniteSets, TLC

(***************************************************************************)
(* Characters and strings                                                  *)
(***************************************************************************)
Ch(s, i) == SubSeq(s, i, i)

UpperAlpha == "ABCDEFGHIJKLMNOPQRSTUVWXYZ"
LowerAlpha == "abcdefghijklmnopqrstuvwxyz"
UpperSet == {Ch(UpperAlpha, i) : i \in 1..Len(UpperAlpha)}
LowerSet == {Ch(LowerAlpha, i) : i \in 1..Len(LowerAlpha)}
DigitSet == {"0", "1", "2", "3", "4", "5", "6", "7", "8", "9"}

\* A TLA+ string holds ASCII characters only.  Two characters beyond ASCII
\* matter to str.lower() and to \w, and are written here with two ASCII
\* characters that occur in no other text of this module:
\*   "{" is U+0130, LATIN CAPITAL LETTER I WITH DOT ABOVE, a letter;
\*   "}" is U+0307, COMBINING DOT ABOVE, a mark: no letter, no white space.
CapitalIDot == "{"
CombiningDot == "}"

IsSpace(c) == c \in {" ", "\t", "\n", "\r"}
IsDigit(c) == c \in DigitSet
\* [A-Za-z]
IsAlpha(c) == c \in UpperSet \cup LowerSet
\* \w of the re module on str: letters of any script, digits, underscore
IsWord(c) == IsAlpha(c) \/ IsDigit(c) \/ c = "_" \/ c = CapitalIDot

\* str.lower() of one character; U+0130 lower-cases to the two characters
\* "i" and U+0307
LowerCh(c) ==
  IF c \in UpperSet
  THEN Ch(LowerAlpha, CHOOSE i \in 1..Len(UpperAlpha) : Ch(UpperAlpha, i) = c)
  ELSE IF c = CapitalIDot THEN "i" \o CombiningDot
  ELSE c
UpperCh(c) ==
  IF c \in LowerSet
  THEN Ch(UpperAlpha, CHOOSE i \in 1..Len(LowerAlpha) : Ch(LowerAlpha, i) = c)
  ELSE c

RECURSIVE StrLower(_)
StrLower(s) == IF s = "" THEN "" ELSE LowerCh(Head(s)) \o StrLower(Tail(s))

RECURSIVE StrUpper(_)
StrUpper(s) == IF s = "" THEN "" ELSE UpperCh(Head(s)) \o StrUpper(Tail(s))

\* str.title(): a letter that follows a non-letter is upper-cased, every
\* other letter is lower-cased.
RECURSIVE TitleFrom(_, _)
TitleFrom(s, prevAlpha) ==
  IF s = "" THEN ""
  ELSE (IF prevAlpha THEN LowerCh(Head(s)) ELSE UpperCh(Head(s)))
       \o TitleFrom(Tail(s), IsAlpha(Head(s)))
StrTitle(s) == TitleFrom(s, FALSE)

RECURSIVE LStrip(_)
LStrip(s) == IF s # "" /\ IsSpace(Head(s)) THEN LStrip(Tail(s)) ELSE s

RECURSIVE RStrip(_)
RStrip(s) ==
  IF s # "" /\ IsSpace(Ch(s, Len(s))) THEN RStrip(SubSeq(s, 1, Len(s) - 1)) ELSE s

\* str.strip()
Strip(s) == RStrip(LStrip(s))

\* re.sub(r"\s+", rep, s)
RECURSIVE SubSpaceRuns(_, _)
SubSpaceRuns(s, rep) ==
  IF s = "" THEN ""
  ELSE IF IsSpace(Head(s)) THEN rep \o SubSpaceRuns(LStrip(s), rep)
  ELSE Head(s) \o SubSpaceRuns(Tail(s), rep)

\* str.replace(old, new), old non-empty: leftmost, non-overlapping
RECURSIVE StrReplace(_, _, _)
StrReplace(s, old, new) ==
  IF Len(s) < Len(old) THEN s
  ELSE IF SubSeq(s, 1, Len(old)) = old
       THEN new \o StrReplace(SubSeq(s, Len(old) + 1, Len(s)), old, new)
       ELSE Head(s) \o StrReplace(Tail(s), old, new)

\* sub in s
Contains(s, sub) ==
  \E i \in 1..(Len(s) - Len(sub) + 1) : SubSeq(s, i, i + Len(sub) - 1) = sub

ContainsAny(s, keys) == \E k \in keys : Contains(s, k)

(***************************************************************************)
(* clean_data.py: constants and the scalar helpers                         *)
(***************************************************************************)
NULL_TOKENS ==
  {"", " ", "  ", "n/a", "na", "null", "none", "nil", "nan", "-", "--",
   "unknown", "?", "today", "yesterday", "tomorrow"}

\* normalize_column_name
normalize_column_name_keep(c) == IsWord(c) \/ IsSpace(c)

RECURSIVE KeepWordAndSpace(_)
KeepWordAndSpace(s) ==
  IF s = "" THEN ""
  ELSE (IF normalize_column_name_keep(Head(s)) THEN Head(s) ELSE "")
       \o KeepWordAndSpace(Tail(s))

normalize_column_name(name) ==
  LET n1 == Strip(name)
      n2 == SubSpaceRuns(n1, " ")
      n3 == KeepWordAndSpace(n2)
  IN StrLower(StrReplace(n3, " ", "_"))

\* collapse_whitespace, for a str argument
collapse_whitespace(value) ==
  LET v1 == StrReplace(value, "\\t", " ")
      v2 == StrReplace(v1, "\\n", " ")
      v3 == StrReplace(v2, "\\r", " ")
  IN Strip(SubSpaceRuns(v3, " "))


(***************************************************************************)
(* Cells, columns (pandas Series) and the report                           *)
(***************************************************************************)
Missing == [k |-> "missing"]
Text(s) == [k |-> "text", s |-> s]
\* a float, held exactly as the decimal v.m / 10^v.e
Num(v) == [k |-> "num", v |-> v]
Ts(y, m, d) == [k |-> "ts", y |-> y, m |-> m, d |-> d]

IsNa(c) == c.k = "missing"
IsStr(c) == c.k = "text"

Series(dtype, cells) == [dtype |-> dtype, cells |-> cells]

is_text_series(series) == series.dtype = "object"

\* Series.notna().sum() and Series.isna().sum()
NotNaCount(cells) == Cardinality({i \in 1..Len(cells) : ~IsNa(cells[i])})
NaCount(cells) == Cardinality({i \in 1..Len(cells) : IsNa(cells[i])})

\* series.apply(f) with f acting on str values only
ApplyStr(cells, F(_)) ==
  [i \in 1..Len(cells) |-> IF IsStr(cells[i]) THEN F(cells[i].s) ELSE cells[i]]

\* elementwise (before != series): a missing operand compares unequal
PandasNe(b, a) == IsNa(b) \/ IsNa(a) \/ b # a

\* ((before != series) & ~(before.isna() & series.isna())).sum()
ChangedCount(before, after) ==
  Cardinality({i \in 1..Len(before) :
                 PandasNe(before[i], after[i]) /\ ~(IsNa(before[i]) /\ IsNa(after[i]))})

NoCounts == [c \in {} |-> 0]

EmptyReport ==
  [column_mapping |-> <<>>,
   nulls_normalized |-> NoCounts, trimmed_values |-> NoCounts,
   numeric_parsed |-> NoCounts, ranges_normalized |-> NoCounts,
   dates_parsed |-> NoCounts, emails_normalized |-> NoCounts,
   phones_normalized |-> NoCounts, codes_normalized |-> NoCounts,
   names_normalized |-> NoCounts, tags_normalized |-> NoCounts,
   status_normalized |-> NoCounts,
   merged_columns |-> <<>>, duplicate_rows_removed |-> 0]

\* the mapping holding this one entry only
SetCountAlone(counts, col_name, n) == (col_name :> n)

\* report[key][col_name] = n
SetCount(counts, col_name, n) == (col_name :> n) @@ counts

\* result of a column transform: the returned series and the report
Out(series, report) == [series |-> series, report |-> report]

(***************************************************************************)
(* Null, whitespace and domain normalizers                                 *)
(***************************************************************************)
\* the strip() left out
IsNullTokenUntrimmed(s) == StrLower(s) \in NULL_TOKENS

IsNullToken(s) == StrLower(Strip(s)) \in NULL_TOKENS

normalize_nulls(series, report, col_name) ==
  LET cells == ApplyStr(series.cells,
                        LAMBDA v : IF IsNullToken(v) THEN Missing ELSE Text(v))
      n == NaCount(cells) - NaCount(series.cells)
  IN Out([series EXCEPT !.cells = cells],
         [report EXCEPT !.nulls_normalized = SetCount(@, col_name, n)])

trim_strings(series, report, col_name) ==
  IF ~is_text_series(series) THEN Out(series, report)
  ELSE LET cells == ApplyStr(series.cells, LAMBDA v : Text(collapse_whitespace(v)))
       IN Out([series EXCEPT !.cells = cells],
              [report EXCEPT !.trimmed_values =
                 SetCount(@, col_name, ChangedCount(series.cells, cells))])

normalize_emails(series, report, col_name) ==
  IF ~is_text_series(series) THEN Out(series, report)
  ELSE IF ~Contains(col_name, "email") THEN Out(series, report)
  ELSE LET cells == ApplyStr(series.cells,
                             LAMBDA v : Text(StrLower(collapse_whitespace(v))))
       IN Out([series EXCEPT !.cells = cells],
              [report EXCEPT !.emails_normalized =
                 SetCount(@, col_name, ChangedCount(series.cells, cells))])

\* re.sub(r"\D+", "", v)
RECURSIVE OnlyDigits(_)
OnlyDigits(s) ==
  IF s = "" THEN ""
  ELSE (IF IsDigit(Head(s)) THEN Head(s) ELSE "") \o OnlyDigits(Tail(s))

clean_phone(v) ==
  LET digits == OnlyDigits(v)
  IN IF Len(digits) >= 7 THEN digits ELSE collapse_whitespace(v)

normalize_phones(series, report, col_name) ==
  IF ~is_text_series(series) THEN Out(series, report)
  ELSE IF ~Contains(col_name, "phone") /\ ~Contains(col_name, "tel")
  THEN Out(series, report)
  ELSE LET cells == ApplyStr(series.cells, LAMBDA v : Text(clean_phone(v)))
       IN Out([series EXCEPT !.cells = cells],
              [report EXCEPT !.phones_normalized =
                 SetCount(@, col_name, ChangedCount(series.cells, cells))])

normalize_codes(series, report, col_name) ==
  IF ~is_text_series(series) THEN Out(series, report)
  ELSE IF ContainsAny(col_name, {"currency", "code", "iso"})
  THEN LET cells == ApplyStr(series.cells, LAMBDA v : Text(Strip(StrUpper(v))))
       IN Out([series EXCEPT !.cells = cells],
              [report EXCEPT !.codes_normalized =
                 SetCount(@, col_name, ChangedCount(series.cells, cells))])
  ELSE Out(series, report)

normalize_names(series, report, col_name) ==
  IF ~is_text_series(series) THEN Out(series, report)
  ELSE IF ContainsAny(col_name, {"name", "customer", "client"})
          /\ ~Contains(col_name, "id")
  THEN LET cells == ApplyStr(series.cells, LAMBDA v : Text(StrTitle(v)))
       IN Out([series EXCEPT !.cells = cells],
              [report EXCEPT !.names_normalized =
                 SetCount(@, col_name, ChangedCount(series.cells, cells))])
  ELSE Out(series, report)

\* TAG_SEPARATORS = \s*[;,|/]\s*
IsTagSep(c) == c \in {";", ",", "|", "/"}

\* TAG_SEPARATORS.split(v): the pieces between separator characters; the
\* white space a match absorbs on either side of a separator is taken off
\* the neighbouring pieces.
RECURSIVE TagSplit(_, _, _)
TagSplit(s, cur, first) ==
  IF s = "" THEN << (IF first THEN cur ELSE LStrip(cur)) >>
  ELSE IF IsTagSep(Head(s))
       THEN << RStrip(IF first THEN cur ELSE LStrip(cur)) >>
            \o TagSplit(Tail(s), "", FALSE)
       ELSE TagSplit(Tail(s), cur \o Head(s), first)

RECURSIVE TagParts(_)
TagParts(pieces) ==
  IF pieces = <<>> THEN <<>>
  ELSE (IF Strip(Head(pieces)) # "" THEN << StrLower(Strip(Head(pieces))) >> ELSE <<>>)
       \o TagParts(Tail(pieces))

RECURSIVE JoinWith(_, _)
JoinWith(parts, sep) ==
  IF parts = <<>> THEN ""
  ELSE IF Len(parts) = 1 THEN parts[1]
  ELSE parts[1] \o sep \o JoinWith(Tail(parts), sep)

\* the join returned even when no part remains
clean_tags_always_join(v) == JoinWith(TagParts(TagSplit(v, "", TRUE)), ";")

clean_tags(v) ==
  LET parts == TagParts(TagSplit(v, "", TRUE))
  IN IF parts # <<>> THEN JoinWith(parts, ";") ELSE v

normalize_tags(series, report, col_name) ==
  IF ~is_text_series(series) THEN Out(series, report)
  ELSE IF ~Contains(col_name, "tag") /\ ~Contains(col_name, "label")
          /\ ~Contains(col_name, "category")
  THEN Out(series, report)
  ELSE LET cells == ApplyStr(series.cells, LAMBDA v : Text(clean_tags(v)))
       IN Out([series EXCEPT !.cells = cells],
              [report EXCEPT !.tags_normalized =
                 SetCount(@, col_name, ChangedCount(series.cells, cells))])

normalize_status(series, report, col_name) ==
  IF ~is_text_series(series) THEN Out(series, report)
  ELSE IF ~Contains(col_name, "status") THEN Out(series, report)
  ELSE LET cells == ApplyStr(series.cells,
                             LAMBDA v : Text(StrLower(collapse_whitespace(v))))
       IN Out([series EXCEPT !.cells = cells],
              [report EXCEPT !.status_normalized =
                 SetCount(@, col_name, ChangedCount(series.cells, cells))])

(***************************************************************************)
(* parse_numeric                                                           *)
(***************************************************************************)
\* head(200) of the sampling steps
SampleSize == 200

RECURSIVE Pow10(_)
Pow10(n) == IF n = 0 THEN 1 ELSE 10 * Pow10(n - 1)

DigitVal(c) == CHOOSE d \in 0..9 : Ch("0123456789", d + 1) = c

RECURSIVE DigitsVal(_, _)
DigitsVal(s, acc) ==
  IF s = "" THEN acc ELSE DigitsVal(Tail(s), 10 * acc + DigitVal(Head(s)))

RECURSIVE KeepChars(_, _)
KeepChars(s, keep) ==
  IF s = "" THEN ""
  ELSE (IF Head(s) \in keep THEN Head(s) ELSE "") \o KeepChars(Tail(s), keep)

\* \d* and \d+ as whole-string matches
AllDigits(s) == \A i \in 1..Len(s) : IsDigit(Ch(s, i))
Digits1(s) == s # "" /\ AllDigits(s)

\* \d+(\.\d+)? as a whole-string match
IsDecimal(s) ==
  \/ Digits1(s)
  \/ \E i \in 1..Len(s) :
       Ch(s, i) = "." /\ Digits1(SubSeq(s, 1, i - 1)) /\ Digits1(SubSeq(s, i + 1, Len(s)))

\* Floats are held exactly, as decimals m / 10^e with no trailing zero in
\* the fraction, so that equal numbers are equal records.
RECURSIVE Dec(_, _)
Dec(m, e) == IF e > 0 /\ m % 10 = 0 THEN Dec(m \div 10, e - 1) ELSE [m |-> m, e |-> e]

DecNeg(a) == [a EXCEPT !.m = 0 - a.m]

\* (a + b) / 2
DecMean(a, b) ==
  LET e == IF a.e >= b.e THEN a.e ELSE b.e
  IN Dec((a.m * Pow10(e - a.e) + b.m * Pow10(e - b.e)) * 5, e + 1)

\* a / 100.0
DecPercent(a) == Dec(a.m, a.e + 2)

\* the value of digits[.digits], each part possibly empty
DecimalVal(s) ==
  IF \E i \in 1..Len(s) : Ch(s, i) = "."
  THEN LET i == CHOOSE j \in 1..Len(s) : Ch(s, j) = "."
       IN Dec(DigitsVal(SubSeq(s, 1, i - 1) \o SubSeq(s, i + 1, Len(s)), 0), Len(s) - i)
  ELSE Dec(DigitsVal(s, 0), 0)

\* what float() accepts among strings over digits . - % ( ): an optional
\* minus, then digits with at most one point and at least one digit
IsFloatBody(s) ==
  /\ \E i \in 1..Len(s) : IsDigit(Ch(s, i))
  /\ \A i \in 1..Len(s) : IsDigit(Ch(s, i)) \/ Ch(s, i) = "."
  /\ Cardinality({i \in 1..Len(s) : Ch(s, i) = "."}) <= 1

\* errors="ignore" in place of "coerce": the text stays where it does not parse
ToNumericIgnore(s) ==
  IF IsFloatBody(s) THEN Num(DecimalVal(s))
  ELSE IF s # "" /\ Head(s) = "-" /\ IsFloatBody(Tail(s)) THEN Num(DecNeg(DecimalVal(Tail(s))))
  ELSE Text(s)

\* pd.to_numeric(value, errors="coerce") of one string
ToNumeric(s) ==
  IF IsFloatBody(s) THEN Num(DecimalVal(s))
  ELSE IF s # "" /\ Head(s) = "-" /\ IsFloatBody(Tail(s)) THEN Num(DecNeg(DecimalVal(Tail(s))))
  ELSE Missing

\* astype(str) of a cell of a text column; a missing cell reads "nan" (or
\* "None"), letters only either way
AsStr(c) == IF IsStr(c) THEN c.s ELSE "nan"

\* str.replace(r"\((.+)\)", r"-\1", regex=True): the match starts at the
\* first "(" and, being greedy, ends at the last ")"
ParenToMinus(s) ==
  LET opens == {i \in 1..Len(s) : Ch(s, i) = "("}
      closes == {i \in 1..Len(s) : Ch(s, i) = ")"}
  IN IF opens = {} \/ closes = {} THEN s
     ELSE LET i == CHOOSE a \in opens : \A b \in opens : a <= b
              j == CHOOSE a \in closes : \A b \in closes : a >= b
          IN IF j >= i + 2
             THEN SubSeq(s, 1, i - 1) \o "-" \o SubSeq(s, i + 1, j - 1)
                  \o SubSeq(s, j + 1, Len(s))
             ELSE s

NumericAlphabet == DigitSet \cup {",", ".", "-", "%", "(", ")"}

\* lines 105-110
StrippedNumericText(c) ==
  LET c0 == AsStr(c)
      c1 == SubSpaceRuns(c0, "")
      c2 == StrReplace(c1, "$", "")
      c3 == StrReplace(c2, "usd", "")
      c4 == StrReplace(c3, "us$", "")
  IN KeepChars(c4, NumericAlphabet)

\* lines 105-111
CleanNumericText(c) == ParenToMinus(StrippedNumericText(c))

\* ^\d+(\.\d+)?-\d+(\.\d+)?$
RangeMatch(s) ==
  \E i \in 1..Len(s) :
    Ch(s, i) = "-" /\ IsDecimal(SubSeq(s, 1, i - 1)) /\ IsDecimal(SubSeq(s, i + 1, Len(s)))

\* the first endpoint in place of the mean
RangeAvgFirst(s) ==
  LET i == CHOOSE j \in 1..Len(s) : Ch(s, j) = "-"
  IN DecimalVal(SubSeq(s, 1, i - 1))

\* mean of the two floats of a range
RangeAvg(s) ==
  LET i == CHOOSE j \in 1..Len(s) : Ch(s, j) = "-"
  IN DecMean(DecimalVal(SubSeq(s, 1, i - 1)), DecimalVal(SubSeq(s, i + 1, Len(s))))

\* ^-?\d+(\.\d+)?%$
PercentMatch(s) ==
  /\ Len(s) >= 2
  /\ Ch(s, Len(s)) = "%"
  /\ LET body == SubSeq(s, 1, Len(s) - 1)
     IN IsDecimal(body) \/ (Head(body) = "-" /\ IsDecimal(Tail(body)))

\* the division by 100 left out
PercentValueUnscaled(s) == ToNumeric(StrReplace(s, "%", ""))

\* pd.to_numeric(cleaned.str.replace("%", "")) / 100.0
PercentValue(s) ==
  LET n == ToNumeric(StrReplace(s, "%", ""))
  IN IF IsNa(n) THEN Missing ELSE Num(DecPercent(n.v))

\* ^\d+,\d+$
CommaDecimalMatch(s) ==
  \E i \in 1..Len(s) :
    Ch(s, i) = "," /\ Digits1(SubSeq(s, 1, i - 1)) /\ Digits1(SubSeq(s, i + 1, Len(s)))

\* every comma removed, the decimal comma included
CommaFixedRemoveAll(s) == StrReplace(s, ",", "")

\* lines 121-123
CommaFixed(s) ==
  StrReplace(IF CommaDecimalMatch(s) THEN StrReplace(s, ",", ".") ELSE s, ",", "")

FORCE_NUMERIC_KEYS ==
  {"price", "cost", "amount", "qty", "quantity", "tax", "discount", "total"}
TEXT_SEMANTIC_KEYS ==
  {"phone", "address", "email", "name", "country", "status", "method", "tag",
   "note", "product"}

force_numeric(col_name) == ContainsAny(col_name, FORCE_NUMERIC_KEYS)

\* series.dropna().astype(str).head(200)
RECURSIVE DropNa(_)
DropNa(cells) ==
  IF cells = <<>> THEN <<>>
  ELSE (IF IsNa(Head(cells)) THEN <<>> ELSE << Head(cells) >>) \o DropNa(Tail(cells))

Sample(series) ==
  LET d == DropNa(series.cells)
  IN IF Len(d) > SampleSize THEN SubSeq(d, 1, SampleSize) ELSE d

\* sample.str.contains(r"[\d]").mean() < 0.3
NumericLikeBelow(sample) ==
  10 * Cardinality({i \in 1..Len(sample) :
                      \E j \in 1..Len(AsStr(sample[i])) : IsDigit(Ch(AsStr(sample[i]), j))})
    < 3 * Len(sample)

\* the early returns of lines 89-103
NumericSkipped(series, col_name) ==
  \/ ~is_text_series(series)
  \/ ~force_numeric(col_name) /\ Contains(col_name, "id")
  \/ ~force_numeric(col_name) /\ ContainsAny(col_name, TEXT_SEMANTIC_KEYS)
  \/ ~force_numeric(col_name)
     /\ (Sample(series) = <<>> \/ NumericLikeBelow(Sample(series)))

\* numeric_values after line 127
NumericValues(cells) ==
  [i \in 1..Len(cells) |->
     LET c == CleanNumericText(cells[i])
     IN IF RangeMatch(c) THEN Num(RangeAvg(c)) ELSE ToNumeric(CommaFixed(c))]

RangeRows(cells) == {i \in 1..Len(cells) : RangeMatch(CleanNumericText(cells[i]))}
PercentRows(cells) == {i \in 1..Len(cells) : PercentMatch(CleanNumericText(cells[i]))}

\* (parsed_count + percent_count) / total_non_null >= threshold, the
\* thresholds being 0.3 and 0.6; a quotient of two counts is rounded to the
\* nearest float, so it compares with the literal as the exact fraction does
NumericAcceptedOneThreshold(parsed, percent, total, forced) ==
  10 * (parsed + percent) >= 6 * total

NumericAccepted(parsed, percent, total, forced) ==
  IF forced THEN 10 * (parsed + percent) >= 3 * total
  ELSE 10 * (parsed + percent) >= 6 * total

parse_numeric(series, report, col_name) ==
  IF NumericSkipped(series, col_name) THEN Out(series, report)
  ELSE
    LET numeric_values == NumericValues(series.cells)
        range_rows == RangeRows(series.cells)
        percent_rows == PercentRows(series.cells)
        report1 == IF range_rows # {}
                   THEN [report EXCEPT !.ranges_normalized =
                           SetCount(@, col_name, Cardinality(range_rows))]
                   ELSE report
        parsed_count == NotNaCount(numeric_values)
        percent_count == Cardinality(percent_rows)
        total_non_null == NotNaCount(series.cells)
    IN IF total_non_null = 0 THEN Out(series, report1)
       ELSE IF NumericAccepted(parsed_count, percent_count, total_non_null,
                               force_numeric(col_name))
       THEN Out(Series("float64",
                       [i \in 1..Len(series.cells) |->
                          IF i \in percent_rows
                          THEN PercentValue(CleanNumericText(series.cells[i]))
                          ELSE numeric_values[i]]),
                [report1 EXCEPT !.numeric_parsed =
                   SetCount(@, col_name, parsed_count + percent_count)])
       ELSE Out(series, report1)

(***************************************************************************)
(* parse_dates                                                             *)
(***************************************************************************)
\* A regular expression made of character classes with repetition counts:
\* a sequence of items [cls, lo, hi].
InClass(cls, c) ==
  CASE cls = "d" -> IsDigit(c)
    [] cls = "sep" -> c \in {"-", "/", "."}
    [] cls = "alpha" -> IsAlpha(c)
    [] cls = "space" -> IsSpace(c)
    [] cls = "comma" -> c = ","

RECURSIVE MatchAt(_, _, _)
MatchAt(s, i, pat) ==
  IF pat = <<>> THEN TRUE
  ELSE \E n \in Head(pat).lo..Head(pat).hi :
         /\ i + n - 1 <= Len(s)
         /\ \A j \in i..(i + n - 1) : InClass(Head(pat).cls, Ch(s, j))
         /\ MatchAt(s, i + n, Tail(pat))

\* re.search
Search(s, pat) == \E i \in 1..(Len(s) + 1) : MatchAt(s, i, pat)

Item(cls, lo, hi) == [cls |-> cls, lo |-> lo, hi |-> hi]

\* the three alternatives of the pattern of line 156
DateLike(s) ==
  \/ Search(s, << Item("d", 4, 4), Item("sep", 1, 1), Item("d", 1, 2),
                  Item("sep", 1, 1), Item("d", 1, 2) >>)
  \/ Search(s, << Item("d", 1, 2), Item("sep", 1, 1), Item("d", 1, 2),
                  Item("sep", 1, 1), Item("d", 2, 4) >>)
  \/ Search(s, << Item("alpha", 3, 9), Item("space", 1, Len(s)), Item("d", 1, 2),
                  Item("comma", 1, 1), Item("space", 0, Len(s)), Item("d", 4, 4) >>)

force_date(col_name) == Contains(col_name, "date") \/ Contains(col_name, "time")

\* sample.str.contains(...).mean() < 0.3
DateLikeBelow(sample) ==
  10 * Cardinality({i \in 1..Len(sample) : DateLike(AsStr(sample[i]))})
    < 3 * Len(sample)

IsLeap(y) == (y % 4 = 0 /\ y % 100 # 0) \/ y % 400 = 0

DaysInMonth(y, m) ==
  IF m = 2 THEN (IF IsLeap(y) THEN 29 ELSE 28)
  ELSE IF m \in {4, 6, 9, 11} THEN 30 ELSE 31

\* datetime(year, month, day), NaT standing for the ValueError
MakeDate(y, m, d) ==
  IF y >= 1 /\ m \in 1..12 /\ d >= 1 /\ d <= DaysInMonth(y, m) THEN Ts(y, m, d)
  ELSE Missing

\* The three numbers of a date written number-separator-number-separator-
\* number with the separator "/" or "-", else the empty sequence.
DateTokens(s) ==
  LET cuts == {<<i, j>> \in (1..Len(s)) \X (1..Len(s)) :
                 /\ i < j
                 /\ Ch(s, i) \in {"/", "-"}
                 /\ Ch(s, j) = Ch(s, i)
                 /\ Digits1(SubSeq(s, 1, i - 1))
                 /\ Digits1(SubSeq(s, i + 1, j - 1))
                 /\ Digits1(SubSeq(s, j + 1, Len(s)))}
  IN IF cuts = {} THEN <<>>
     ELSE LET c == CHOOSE c \in cuts : TRUE
          IN << SubSeq(s, 1, c[1] - 1), SubSeq(s, c[1] + 1, c[2] - 1),
                SubSeq(s, c[2] + 1, Len(s)) >>

\* The two numbers of a text written number-separator-number, else the
\* empty sequence.
DatePair(s) ==
  LET cuts == {i \in 1..Len(s) :
                 /\ Ch(s, i) \in {"/", "-"}
                 /\ Digits1(SubSeq(s, 1, i - 1))
                 /\ Digits1(SubSeq(s, i + 1, Len(s)))}
  IN IF cuts = {} THEN <<>>
     ELSE << SubSeq(s, 1, (CHOOSE i \in cuts : TRUE) - 1),
             SubSeq(s, (CHOOSE i \in cuts : TRUE) + 1, Len(s)) >>

\* words that dateutil reads as part of a date or time
DATEUTIL_WORDS ==
  {"jan", "feb", "mar", "apr", "may", "jun", "jul", "aug", "sep", "sept", "oct",
   "nov", "dec", "january", "february", "march", "april", "june", "july",
   "august", "september", "october", "november", "december",
   "mon", "tue", "wed", "thu", "fri", "sat", "sun", "monday", "tuesday",
   "wednesday", "thursday", "friday", "saturday", "sunday",
   "am", "pm", "a", "p", "utc", "gmt", "z", "t", "h", "m", "s", "now"}

\* The texts whose parse this model computes: a full numeric date with a
\* four-digit year first or last, two numbers up to 31 of at most two
\* digits, or a single word without digits that dateutil does not know.
DateTextModelled(s) ==
  \/ /\ DateTokens(s) # <<>>
     /\ LET t == DateTokens(s)
        IN \/ Len(t[1]) = 4 /\ Len(t[2]) <= 2 /\ Len(t[3]) <= 2
           \/ Len(t[1]) <= 2 /\ Len(t[2]) <= 2 /\ Len(t[3]) = 4
  \/ /\ DatePair(s) # <<>>
     /\ \A k \in 1..2 : Len(DatePair(s)[k]) <= 2 /\ DigitsVal(DatePair(s)[k], 0) <= 31
  \/ /\ s # ""
     /\ \A i \in 1..Len(s) : IsAlpha(Ch(s, i))
     /\ StrLower(s) \notin DATEUTIL_WORDS

\* the year of datetime.now(): dateutil takes the fields a text does not
\* give from the day the call is made
Years == {2024, 2025}

VARIABLE
  today     \* the year the clock shows

\* two numbers with no month name and no year: month and day, the day first
\* only if dayfirst is set and the second number can be a month
DateutilParsePair(t, dayfirst) ==
  IF dayfirst /\ DigitsVal(t[2], 0) <= 12
  THEN MakeDate(today, DigitsVal(t[2], 0), DigitsVal(t[1], 0))
  ELSE MakeDate(today, DigitsVal(t[1], 0), DigitsVal(t[2], 0))

\* the day-first reading never tried
DateutilParseMonthFirst(s, dayfirst) ==
  IF DateTokens(s) = <<>>
  THEN (IF DatePair(s) = <<>> THEN Missing ELSE DateutilParsePair(DatePair(s), FALSE))
  ELSE MakeDate(DigitsVal(DateTokens(s)[3], 0), DigitsVal(DateTokens(s)[1], 0),
                DigitsVal(DateTokens(s)[2], 0))

\* dateutil.parser.parse(s, dayfirst=dayfirst, fuzzy=True): the timestamp,
\* or NaT where it raises.  Follows _ymd.resolve_ymd for numbers with no
\* month name; a token of more than two digits is the year.
DateutilParse(s, dayfirst) ==
  LET t == DateTokens(s)
  IN IF t = <<>>
     THEN (IF DatePair(s) = <<>> THEN Missing
           ELSE DateutilParsePair(DatePair(s), dayfirst))
     ELSE LET a == DigitsVal(t[1], 0)
              b == DigitsVal(t[2], 0)
              c == DigitsVal(t[3], 0)
          IN IF Len(t[1]) > 2
             THEN (IF dayfirst /\ c <= 12 THEN MakeDate(a, c, b) ELSE MakeDate(a, b, c))
             ELSE IF a > 31 THEN Missing
             ELSE IF a > 12 \/ (dayfirst /\ b <= 12) THEN MakeDate(c, b, a)
             ELSE MakeDate(c, a, b)

\* one element of pd.to_datetime(parsed_values, errors="coerce"): a text
\* element is one that dateutil rejected twice; pandas parses it again and
\* coerces the failure to NaT
ToDatetimeIgnore(c) ==
  IF c.k = "ts" /\ (c.y < 1678 \/ c.y > 2261) THEN Missing ELSE c

ToDatetimeCoerce(c) ==
  IF IsStr(c) THEN DateutilParse(c.s, FALSE)
  ELSE IF c.k = "ts" /\ (c.y < 1678 \/ c.y > 2261) THEN Missing
  ELSE c

\* one turn of the loop of lines 165-186: the value appended to parsed_values
ParsedValue(v, forced) ==
  IF IsNa(v) THEN Missing
  ELSE IF IsStr(v) /\ IsNullToken(v.s) THEN Missing
  ELSE LET v_clean == collapse_whitespace(AsStr(v))
           monthfirst == DateutilParse(v_clean, FALSE)
           dayfirst == DateutilParse(v_clean, TRUE)
       IN IF ~IsNa(monthfirst) THEN monthfirst
          ELSE IF ~IsNa(dayfirst) THEN dayfirst
          ELSE IF forced THEN Missing ELSE v

ParsedValues(cells, forced) == [i \in 1..Len(cells) |-> ParsedValue(cells[i], forced)]

\* parsed_count: the cells for which one of the two attempts succeeded
DateParsedCount(cells, forced) ==
  Cardinality({i \in 1..Len(cells) : ParsedValue(cells[i], forced).k = "ts"})

\* the early returns of lines 146-160
DatesSkipped(series, col_name) ==
  \/ ~is_text_series(series)
  \/ Sample(series) = <<>>
  \/ ~force_date(col_name) /\ DateLikeBelow(Sample(series))

\* parsed_count / total_non_null >= threshold, thresholds 0.3 and 0.6
DatesAccepted(parsed, total, forced) ==
  IF forced THEN 10 * parsed >= 3 * total ELSE 10 * parsed >= 6 * total

\* pd.to_datetime(parsed_values, errors="coerce")
to_datetime(values) == [i \in 1..Len(values) |-> ToDatetimeCoerce(values[i])]

\* the count written, the column handed back as text
parse_dates_report_only(series, report, col_name) ==
  IF DatesSkipped(series, col_name) THEN Out(series, report)
  ELSE Out(series,
           [report EXCEPT !.dates_parsed =
              SetCount(@, col_name,
                       DateParsedCount(series.cells, force_date(col_name)))])

parse_dates(series, report, col_name) ==
  IF DatesSkipped(series, col_name) THEN Out(series, report)
  ELSE
    LET forced == force_date(col_name)
        parsed_values == ParsedValues(series.cells, forced)
        parsed_count == DateParsedCount(series.cells, forced)
        total_non_null == NotNaCount(series.cells)
    IN IF total_non_null = 0 THEN Out(series, report)
       ELSE IF ~DatesAccepted(parsed_count, total_non_null, forced)
       THEN Out(series, report)
       ELSE LET parsed == to_datetime(parsed_values)
            IN Out(Series("datetime64", parsed),
                   [report EXCEPT !.dates_parsed =
                      SetCount(@, col_name, NotNaCount(parsed))])

(***************************************************************************)
(* Tables (pandas DataFrame): column labels, columns, row count            *)
(***************************************************************************)
Table(names, cols, n) == [names |-> names, cols |-> cols, n |-> n]

NoTable == Table(<<>>, <<>>, 0)

\* the positions of the columns labelled name
ColsNamed(t, name) == {i \in 1..Len(t.names) : t.names[i] = name}

RECURSIVE SelectSeq2(_, _, _)
SelectSeq2(seq, i, keep) ==
  IF i > Len(seq) THEN <<>>
  ELSE (IF i \in keep THEN << seq[i] >> ELSE <<>>) \o SelectSeq2(seq, i + 1, keep)

\* df.drop(columns=labels): every column carrying one of the labels goes
DropColumns(t, labels) ==
  LET keep == {i \in 1..Len(t.names) : t.names[i] \notin labels}
  IN Table(SelectSeq2(t.names, 1, keep), SelectSeq2(t.cols, 1, keep), t.n)

SeqToSet(seq) == {seq[i] : i \in 1..Len(seq)}

(***************************************************************************)
(* merge_duplicate_columns                                                 *)
(***************************************************************************)
\* to_drop: the label of every column whose label was seen before
RECURSIVE ToDrop(_, _)
ToDrop(names, seen) ==
  IF names = <<>> THEN <<>>
  ELSE IF Head(names) \in seen
       THEN << Head(names) >> \o ToDrop(Tail(names), seen)
       ELSE ToDrop(Tail(names), seen \cup {Head(names)})

\* df[primary].combine_first(df[base]) of line 78.  The label is carried by
\* several columns, so df[primary] and df[base] are the same DataFrame of
\* all of them, not one Series each.  DataFrame.combine reads .dtype of
\* this[col], again a DataFrame, and raises AttributeError as soon as the
\* frame has a row; on a frame without rows the call returns a copy or
\* raises, depending on the pandas release.  When it returns, the assignment
\* of line 78 writes the columns back unchanged.
CombineFirstOutcomes(t) == IF t.n > 0 THEN {"raise"} ELSE {"raise", "unchanged"}

\* lines 82-85, once the loop has ended without raising
MergeResult(t, report) ==
  LET to_drop == ToDrop(t.names, {})
  IN IF to_drop # <<>>
     THEN [df |-> DropColumns(t, SeqToSet(to_drop)),
           report |-> [report EXCEPT !.merged_columns = to_drop]]
     ELSE [df |-> t, report |-> report]

(***************************************************************************)
(* remove_exact_duplicates                                                 *)
(***************************************************************************)
Row(t, r) == [c \in 1..Len(t.cols) |-> t.cols[c].cells[r]]

\* DataFrame.duplicated() hashes the rows; NaN, None and NaT hash alike, so
\* two missing cells agree
SameRowNaNDiffers(a, b) == a = b /\ \A c \in 1..Len(a) : ~IsNa(a[c])

SameRow(a, b) == a = b

\* the rows that repeat an earlier row
Duplicated(t) == {r \in 1..t.n : \E q \in 1..(r - 1) : SameRow(Row(t, q), Row(t, r))}

drop_duplicates(t) ==
  LET keep == (1..t.n) \ Duplicated(t)
  IN Table(t.names,
           [c \in 1..Len(t.cols) |->
              [t.cols[c] EXCEPT !.cells = SelectSeq2(t.cols[c].cells, 1, keep)]],
           Cardinality(keep))

remove_exact_duplicates(t, report) ==
  LET d == drop_duplicates(t)
  IN [df |-> d, report |-> [report EXCEPT !.duplicate_rows_removed = t.n - d.n]]

(***************************************************************************)
(* clean_dataframe                                                         *)
(***************************************************************************)
\* lines 313-315
column_mapping(t) ==
  [i \in 1..Len(t.names) |-> << t.names[i], normalize_column_name(t.names[i]) >>]

Renamed(t) ==
  [t EXCEPT !.names = [i \in 1..Len(t.names) |-> normalize_column_name(t.names[i])]]

(***************************************************************************)
(* data_processor.py: the column lookup of load_and_process_data           *)
(***************************************************************************)
ORDER_DATE_CHOICES == << "order_date", "orderdate", "date", "created_at", "createdat" >>
PRODUCT_CHOICES == << "product", "product_name", "item", "title" >>

\* _first_existing_column: the position of the column found, 0 for None
RECURSIVE first_existing_column(_, _)
first_existing_column(t, choices) ==
  IF choices = <<>> THEN 0
  ELSE IF ColsNamed(t, Head(choices)) # {}
       THEN CHOOSE i \in ColsNamed(t, Head(choices)) : TRUE
       ELSE first_existing_column(t, Tail(choices))

\* _as_datetime: pd.to_datetime(series, errors="coerce") unless the column
\* holds timestamps already; a float is read as an epoch offset
as_datetime(series) ==
  IF series.dtype = "datetime64" THEN series.cells
  ELSE [i \in 1..Len(series.cells) |->
          IF series.cells[i].k = "num" THEN Ts(1970, 1, 1)
          ELSE ToDatetimeCoerce(series.cells[i])]

\* lines 82-154: "failure" for the two (None, message) returns, "kpi" for
\* (kpi_data, "OK")
KpiOutcome(t) ==
  LET d == first_existing_column(t, ORDER_DATE_CHOICES)
      p == first_existing_column(t, PRODUCT_CHOICES)
  IN IF d = 0 \/ NotNaCount(as_datetime(t.cols[d])) = 0 THEN "failure"
     ELSE IF p = 0 THEN "failure"
     ELSE "kpi"

(***************************************************************************)
(* Input tables: what pd.read_csv(..., dtype=str) hands over.  Every cell  *)
(* is text or missing, every column has dtype object, the headers are      *)
(* pairwise different.                                                     *)
(***************************************************************************)
MaxRows == 3

Col(header, pool) == [header |-> header, pool |-> pool]

NumPool == {Missing, Text("12"), Text("abc"), Text("10%"), Text("2-3")}
DatePool == {Missing, Text("03/04/2024"), Text("abc")}
TagPool == {Missing, Text("VIP; Gift , wholesale"), Text("-;"), Text(" ; ")}
EmailPool == {Text(" A@B.com"), Text("n/a")}
RawPool == {Missing, Text("A1"), Text(" N/A "), Text("\\t")}
IdPoolA == {Missing, Text("A1")}
IdPoolB == {Missing, Text("B2")}
PricePool == {Text("12"), Text("abc")}
DayPool == {Text("03/04/2024"), Text("abc")}
ProductPool == {Missing, Text("mug")}
FallbackPool == {Text("03/04/2024"), Text("31/04/2024"), Text("31/03"), Text("abc")}
ShapePool == {Text("(12.34)"), Text("12(34)"), Text("12,5"), Text("1,234.56")}

Schemas ==
  { << Col("Total Price", NumPool) >>,
    << Col("misc", NumPool) >>,
    << Col("Order Date", DatePool) >>,
    << Col("created", DatePool) >>,
    << Col("Ship Date", FallbackPool) >>,
    << Col("Tax Date", DayPool) >>,
    << Col("Tags", TagPool) >>,
    << Col("Customer Email", EmailPool) >>,
    << Col("Notes", RawPool) >>,
    << Col("Amount", ShapePool) >>,
    << Col("!!!", IdPoolA) >>,
    << Col(CapitalIDot \o "l", IdPoolA) >>,
    << Col("Order ID", IdPoolA), Col("order_id", IdPoolB) >>,
    << Col("!!!", IdPoolA), Col("???", IdPoolB) >>,
    << Col("Order ID", IdPoolA), Col("Total Price", PricePool) >>,
    << Col("Total Price", PricePool), Col("misc", PricePool) >>,
    << Col("Order Date", DayPool), Col("Product", ProductPool) >> }

TablesOf(schema, n) ==
  IF Len(schema) = 1
  THEN {Table(<< schema[1].header >>, << Series("object", c) >>, n) :
          c \in [1..n -> schema[1].pool]}
  ELSE {Table(<< schema[1].header, schema[2].header >>,
              << Series("object", c[1]), Series("object", c[2]) >>, n) :
          c \in [1..n -> schema[1].pool] \X [1..n -> schema[2].pool]}

InputTables == UNION {TablesOf(schema, n) : schema \in Schemas, n \in 0..MaxRows}

(***************************************************************************)
(* The state machine: one run of a caller of clean_dataframe               *)
(***************************************************************************)
\* "main" is clean_data.main, "load_and_process_data" the dashboard loader,
\* "twice" a caller that hands the cleaned table to clean_dataframe again,
\* "repeat" a caller that calls clean_dataframe twice on the same table.
Entries == {"main", "load_and_process_data", "twice", "repeat"}

VARIABLES
  entry,    \* the caller
  pc,       \* where the run stands
  input,    \* the table passed to the clean_dataframe call under way
  df,       \* df of clean_dataframe
  report,   \* report of clean_dataframe
  col,      \* position in df.columns of the column the loop treats next
  stage,    \* the column last treated: what went into and came out of
            \* normalize_nulls, normalize_tags, parse_dates and parse_numeric
  run,      \* number of clean_dataframe calls started
  ret,      \* what the caller returned: "none" while running
  first     \* what the first clean_dataframe call of "repeat" returned

vars == << entry, pc, input, df, report, col, stage, run, ret, today, first >>

NoStage == [name |-> "", nulls_in |-> Series("object", <<>>),
            nulls_out |-> Series("object", <<>>),
            tags_in |-> Series("object", <<>>),
            tags_out |-> Series("object", <<>>),
            dates_in |-> Series("object", <<>>),
            dates_out |-> Series("object", <<>>),
            numeric_out |-> Series("object", <<>>), seen |-> FALSE]

NoCall == [df |-> NoTable, report |-> EmptyReport]

Init ==
  /\ entry \in Entries
  /\ pc = "start"
  /\ input = NoTable
  /\ df = NoTable
  /\ report = EmptyReport
  /\ col = 1
  /\ stage = NoStage
  /\ run = 0
  /\ ret = "none"
  /\ today \in Years
  /\ first = NoCall

\* pd.read_csv succeeds and clean_dataframe is called (data_processor.py
\* lines 73 and 78, clean_data.py lines 379-380); "twice" and "repeat" are
\* handed a table
ReadCsvOk ==
  /\ pc = "start"
  /\ \E t \in InputTables : input' = t
  /\ pc' = "clean"
  /\ run' = 1
  /\ UNCHANGED << entry, df, report, col, stage, ret, today, first >>

\* pd.read_csv raises: load_and_process_data returns (None, message), main
\* has no handler and the exception leaves it
ReadCsvFails ==
  /\ pc = "start"
  /\ entry \in {"main", "load_and_process_data"}
  /\ pc' = "done"
  /\ ret' = IF entry = "load_and_process_data" THEN "failure" ELSE "raised"
  /\ UNCHANGED << entry, input, df, report, col, stage, run, today, first >>

\* clean_dataframe, lines 294-318: the report, the renaming, the merge
CleanBegin ==
  /\ pc = "clean"
  /\ LET renamed == Renamed(input)
         report0 == [EmptyReport EXCEPT !.column_mapping = column_mapping(input)]
         merged == MergeResult(renamed, report0)
     IN IF ToDrop(renamed.names, {}) = <<>>
        THEN /\ df' = merged.df
             /\ report' = merged.report
             /\ pc' = "columns"
        ELSE \E outcome \in CombineFirstOutcomes(renamed) :
               IF outcome = "raise"
               THEN /\ df' = renamed
                    /\ report' = report0
                    /\ pc' = "clean_raised"
               ELSE /\ df' = merged.df
                    /\ report' = merged.report
                    /\ pc' = "columns"
  /\ col' = 1
  /\ stage' = NoStage
  /\ UNCHANGED << entry, input, run, ret, today, first >>

\* one turn of the loop of lines 321-333: every transform takes the series
\* the one before it returned and the report it wrote to
CleanColumn ==
  /\ pc = "columns"
  /\ col <= Len(df.names)
  /\ \E name \in {df.names[col]} :
     \E s1 \in {normalize_nulls(df.cols[col], report, name)} :
     \E s2 \in {trim_strings(s1.series, s1.report, name)} :
     \E s3 \in {normalize_emails(s2.series, s2.report, name)} :
     \E s4 \in {normalize_phones(s3.series, s3.report, name)} :
     \E s5 \in {normalize_codes(s4.series, s4.report, name)} :
     \E s6 \in {normalize_names(s5.series, s5.report, name)} :
     \E s7 \in {normalize_tags(s6.series, s6.report, name)} :
     \E s8 \in {normalize_status(s7.series, s7.report, name)} :
     \E s9 \in {parse_dates(s8.series, s8.report, name)} :
     \E s10 \in {parse_numeric(s9.series, s9.report, name)} :
       /\ df' = [df EXCEPT !.cols[col] = s10.series]
       /\ report' = s10.report
       /\ stage' = [name |-> name,
                    nulls_in |-> df.cols[col], nulls_out |-> s1.series,
                    tags_in |-> s6.series, tags_out |-> s7.series,
                    dates_in |-> s8.series,
                    dates_out |-> s9.series, numeric_out |-> s10.series,
                    seen |-> TRUE]
  /\ col' = col + 1
  /\ UNCHANGED << entry, pc, input, run, ret, today, first >>

\* lines 335-337
RemoveDuplicates ==
  /\ pc = "columns"
  /\ col > Len(df.names)
  /\ LET d == remove_exact_duplicates(df, report)
     IN /\ df' = d.df
        /\ report' = d.report
  /\ pc' = "cleaned"
  /\ UNCHANGED << entry, input, col, stage, run, ret, today, first >>

\* an exception raised in clean_dataframe reaches the caller:
\* load_and_process_data returns (None, message), the others let it pass
CleanRaised ==
  /\ pc = "clean_raised"
  /\ pc' = "done"
  /\ ret' = IF entry = "load_and_process_data" THEN "failure" ELSE "raised"
  /\ UNCHANGED << entry, input, df, report, col, stage, run, today, first >>

\* data_processor.py lines 82-154
BuildKpi ==
  /\ pc = "cleaned"
  /\ entry = "load_and_process_data"
  /\ pc' = "done"
  /\ ret' = KpiOutcome(df)
  /\ UNCHANGED << entry, input, df, report, col, stage, run, today, first >>

\* clean_data.py lines 382-389
WriteOutputs ==
  /\ pc = "cleaned"
  /\ entry = "main"
  /\ pc' = "done"
  /\ ret' = "written"
  /\ UNCHANGED << entry, input, df, report, col, stage, run, today, first >>

\* the cleaned table is passed to clean_dataframe a second time
CleanAgain ==
  /\ pc = "cleaned"
  /\ entry = "twice"
  /\ run = 1
  /\ input' = df
  /\ run' = 2
  /\ pc' = "clean"
  /\ UNCHANGED << entry, df, report, col, stage, ret, today, first >>

\* the second call has returned
TwiceDone ==
  /\ pc = "cleaned"
  /\ entry = "twice"
  /\ run = 2
  /\ pc' = "done"
  /\ ret' = "cleaned"
  /\ UNCHANGED << entry, input, df, report, col, stage, run, today, first >>

\* the caller passes the table it passed before to clean_dataframe again,
\* as the dashboard does each time its script runs (app.py line 28); the
\* clock has moved on or not, and the new call has treated no column yet
CallAgain ==
  /\ pc = "cleaned"
  /\ entry = "repeat"
  /\ run = 1
  /\ first' = [df |-> df, report |-> report]
  /\ today' \in {y \in Years : y >= today}
  /\ run' = 2
  /\ pc' = "clean"
  /\ stage' = NoStage
  /\ UNCHANGED << entry, input, df, report, col, ret >>

\* the second call on the same table has returned
RepeatDone ==
  /\ pc = "cleaned"
  /\ entry = "repeat"
  /\ run = 2
  /\ pc' = "done"
  /\ ret' = "cleaned"
  /\ UNCHANGED << entry, input, df, report, col, stage, run, today, first >>

Next ==
  \/ ReadCsvOk
  \/ ReadCsvFails
  \/ CleanBegin
  \/ CleanColumn
  \/ RemoveDuplicates
  \/ CleanRaised
  \/ BuildKpi
  \/ WriteOutputs
  \/ CleanAgain
  \/ TwiceDone
  \/ CallAgain
  \/ RepeatDone

Spec == Init /\ [][Next]_vars


(***************************************************************************)
(* Properties                                                              *)
(***************************************************************************)
NormNames(t) == [i \in 1..Len(t.names) |-> normalize_column_name(t.names[i])]

\* the pairs (A, B) of input columns, A the first of its name, B a later one
CollidingPairs ==
  {p \in (1..Len(input.names)) \X (1..Len(input.names)) :
     /\ p[1] < p[2]
     /\ NormNames(input)[p[1]] = NormNames(input)[p[2]]
     /\ \A q \in 1..(p[1] - 1) : NormNames(input)[q] # NormNames(input)[p[1]]}

\* the merge step of a clean_dataframe call is over: it raised or it is
\* about to enter the column loop
MergeOver == pc = "clean_raised" \/ (pc = "columns" /\ col = 1 /\ ~stage.seen)

\* the clean_dataframe call is over: it raised or it returned
CallOver == pc = "clean_raised" \/ pc = "cleaned"

\* C1: when two input columns A (earlier) and B (later) normalize to the
\* same name, the merge leaves one column of that name whose cell at each
\* row is A's value if A has one and B's value otherwise.
C1_MergeFirstNonNull ==
  MergeOver =>
    \A p \in CollidingPairs :
      /\ pc = "columns"
      /\ Cardinality(ColsNamed(df, NormNames(input)[p[1]])) = 1
      /\ LET k == CHOOSE i \in ColsNamed(df, NormNames(input)[p[1]]) : TRUE
             A == input.cols[p[1]].cells
             B == input.cols[p[2]].cells
         IN \A r \in 1..input.n :
              df.cols[k].cells[r] = IF ~IsNa(A[r]) THEN A[r] ELSE B[r]

\* C2: the column names of the table clean_dataframe returns are the
\* distinct normalized names of the input columns, each exactly once.
C2_ColumnSet ==
  CallOver =>
    /\ pc = "cleaned"
    /\ SeqToSet(df.names) = SeqToSet(NormNames(input))
    /\ \A i, j \in 1..Len(df.names) : df.names[i] = df.names[j] => i = j

\* the original names of the columns whose normalized name repeats that of
\* an earlier column
RECURSIVE CollidedOriginals(_, _, _)
CollidedOriginals(t, i, seen) ==
  IF i > Len(t.names) THEN <<>>
  ELSE IF NormNames(t)[i] \in seen
       THEN << t.names[i] >> \o CollidedOriginals(t, i + 1, seen)
       ELSE CollidedOriginals(t, i + 1, seen \cup {NormNames(t)[i]})

\* C3: report.merged_columns lists exactly the original names of the
\* columns dropped for colliding with an earlier column, and is empty when
\* no names collide.
C3_MergedColumns ==
  CallOver =>
    /\ pc = "cleaned"
    /\ report.merged_columns = CollidedOriginals(input, 1, {})

\* the numeric stage of the column last treated went as far as the parse
ReachedNumericParse ==
  /\ stage.seen
  /\ ~NumericSkipped(stage.dates_out, stage.name)
  /\ NotNaCount(stage.dates_out.cells) > 0

\* cells of the column handed to parse_numeric that parse as a number or
\* match the percent shape
NumericHits ==
  NotNaCount(NumericValues(stage.dates_out.cells))
  + Cardinality(PercentRows(stage.dates_out.cells))

\* C4: a text column with a non-missing cell that reaches the parsing step
\* of parse_numeric is converted to numbers exactly when (parsed + percent)
\* / non-missing is at least 0.3 for a forced name and at least 0.6 otherwise.
C4_NumericAcceptance ==
  ReachedNumericParse =>
    (stage.numeric_out.dtype = "float64"
       <=> IF ContainsAny(stage.name, FORCE_NUMERIC_KEYS)
           THEN 10 * NumericHits >= 3 * NotNaCount(stage.dates_out.cells)
           ELSE 10 * NumericHits >= 6 * NotNaCount(stage.dates_out.cells))

\* a table with the same cells under total_price and misc, one in three of
\* them a number: total_price comes out numeric, misc stays text
C4_Witness ==
  /\ pc = "cleaned"
  /\ run = 1
  /\ df.names = << "total_price", "misc" >>
  /\ input.n = 3
  /\ input.cols[1].cells = input.cols[2].cells
  /\ Cardinality({r \in 1..3 : input.cols[1].cells[r] = Text("12")}) = 1
  /\ df.cols[1].dtype = "float64"
  /\ df.cols[2].dtype = "object"

AllOfKinds(series, kinds) == \A i \in 1..Len(series.cells) : series.cells[i].k \in kinds

\* C5: parse_dates and parse_numeric return the column they were handed,
\* cell for cell, or a re-typed column in which every cell is a converted
\* value or missing.
C5_AllOrNothing ==
  stage.seen =>
    /\ \/ stage.dates_out = stage.dates_in
       \/ /\ stage.dates_out.dtype = "datetime64"
          /\ AllOfKinds(stage.dates_out, {"ts", "missing"})
    /\ \/ stage.numeric_out = stage.dates_out
       \/ /\ stage.numeric_out.dtype = "float64"
          /\ AllOfKinds(stage.numeric_out, {"num", "missing"})

\* parse_numeric committed a column holding a text that is no number
C5_Witness ==
  /\ stage.seen
  /\ stage.numeric_out.dtype = "float64"
  /\ \E i \in 1..Len(stage.dates_out.cells) :
       /\ stage.dates_out.cells[i] = Text("abc")
       /\ IsNa(stage.numeric_out.cells[i])
  /\ \E i \in 1..Len(stage.dates_out.cells) : stage.numeric_out.cells[i].k = "num"

\* the cells of the column handed to parse_dates on which both dateutil
\* attempts were made and failed
DateFailures ==
  IF stage.seen /\ ~DatesSkipped(stage.dates_in, stage.name)
  THEN {i \in 1..Len(stage.dates_in.cells) :
          LET v == stage.dates_in.cells[i]
          IN /\ IsStr(v)
             /\ ~IsNullToken(v.s)
             /\ IsNa(DateutilParse(collapse_whitespace(v.s), FALSE))
             /\ IsNa(DateutilParse(collapse_whitespace(v.s), TRUE))}
  ELSE {}

NormalizerCounters(r) ==
  << r.nulls_normalized, r.trimmed_values, r.emails_normalized, r.phones_normalized,
     r.codes_normalized, r.names_normalized, r.tags_normalized, r.status_normalized >>

\* C7: clean_dataframe applied to its own output returns the text cells
\* and the missing cells it was given, and every null, whitespace and
\* case-style counter of that second call is zero.
C7_Idempotent ==
  entry = "twice" /\ run = 2 /\ CallOver =>
    /\ pc = "cleaned"
    /\ df.names = input.names
    /\ df.n = input.n
    /\ \A c \in 1..Len(input.cols) : \A r \in 1..input.n :
         input.cols[c].cells[r].k \in {"text", "missing"}
           => df.cols[c].cells[r] = input.cols[c].cells[r]
    /\ \A k \in 1..Len(NormalizerCounters(report)) :
         \A name \in DOMAIN NormalizerCounters(report)[k] :
           NormalizerCounters(report)[k][name] = 0

\* C8: clean_dataframe runs to completion on every table of text and
\* missing cells, whatever the headers; no call ends in an exception.
C8_Total == pc # "clean_raised"

\* the clean_dataframe call of the run raised: df still carries a label twice
CleanFailed == run > 0 /\ ToDrop(df.names, {}) # <<>>

\* C9: when reading the CSV fails the entry point returns (None, message)
\* without raising and without calling clean_dataframe, and a failure
\* inside clean_dataframe is returned as (None, message) too.
C9_LoadFailure ==
  entry \in {"main", "load_and_process_data"} /\ pc = "done" =>
    /\ run = 0 => ret = "failure"
    /\ CleanFailed => ret = "failure"

\* the rows of t that repeat no earlier row
FirstOccurrences(t) == {r \in 1..t.n : \A q \in 1..(r - 1) : Row(t, q) # Row(t, r)}

KthSmallest(S, k) == CHOOSE x \in S : Cardinality({y \in S : y <= x}) = k

\* C10: the duplicate row remover keeps, in their order, exactly the rows
\* equal to no earlier row (missing equal to missing), and
\* duplicate_rows_removed is the number of rows removed, so that the output
\* has the input's row count less duplicate_rows_removed.
C10_DuplicateRows ==
  [][pc = "columns" /\ pc' = "cleaned" =>
       /\ df'.n = Cardinality(FirstOccurrences(df))
       /\ \A k \in 1..df'.n : Row(df', k) = Row(df, KthSmallest(FirstOccurrences(df), k))
       /\ \A c \in 1..Len(df'.cols) : Len(df'.cols[c].cells) = df'.n
       /\ report'.duplicate_rows_removed = df.n - df'.n
       /\ df'.n = input.n - report'.duplicate_rows_removed]_vars

\* rows were removed, among them one made of missing cells only, and more
\* than one row is left
C10_Witness ==
  /\ pc = "cleaned"
  /\ report.duplicate_rows_removed > 0
  /\ df.n >= 2
  /\ Cardinality({r \in 1..input.n : \A c \in 1..Len(input.cols) :
                    IsNa(input.cols[c].cells[r])}) >= 2

\* every text that reaches dateutil is one whose parse the model computes
DateTextsModelled ==
  stage.seen /\ ~DatesSkipped(stage.dates_in, stage.name) =>
    \A i \in 1..Len(stage.dates_in.cells) :
      LET v == stage.dates_in.cells[i]
      IN IsStr(v) /\ ~IsNullToken(v.s) => DateTextModelled(collapse_whitespace(v.s))

(***************************************************************************)
(* parse_numeric: ranges, percents, parentheses, commas                    *)
(***************************************************************************)
\* parse_numeric converted the column last treated
NumericCommitted ==
  /\ stage.seen
  /\ stage.dates_out.dtype = "object"
  /\ stage.numeric_out.dtype = "float64"

\* the counter of a column, 0 when the mapping has no entry for it
CountOf(counts, name) == IF name \in DOMAIN counts THEN counts[name] ELSE 0

Max2(a, b) == IF a >= b THEN a ELSE b

\* a + b = k * v for decimals a, b, v
SumIsTimes(a, b, k, v) ==
  LET e == Max2(v.e, Max2(a.e, b.e))
  IN a.m * Pow10(e - a.e) + b.m * Pow10(e - b.e) = k * v.m * Pow10(e - v.e)

\* the two endpoints of a text of the form number-number
RangeEnds(s) ==
  LET i == CHOOSE j \in 1..Len(s) : Ch(s, j) = "-"
  IN << DecimalVal(SubSeq(s, 1, i - 1)), DecimalVal(SubSeq(s, i + 1, Len(s))) >>

\* C11: in a column that parse_numeric converted, every cell whose cleaned
\* text is wholly number-number holds the arithmetic mean of the two
\* endpoints ("2-3" gives 2.5), and ranges_normalized of the column is the
\* number of such cells.
C11_Ranges ==
  NumericCommitted =>
    /\ \A i \in RangeRows(stage.dates_out.cells) :
         /\ stage.numeric_out.cells[i].k = "num"
         /\ LET ends == RangeEnds(CleanNumericText(stage.dates_out.cells[i]))
            IN SumIsTimes(ends[1], ends[2], 2, stage.numeric_out.cells[i].v)
    /\ \A i \in 1..Len(stage.dates_out.cells) :
         stage.dates_out.cells[i] = Text("2-3")
           => stage.numeric_out.cells[i] = Num([m |-> 25, e |-> 1])
    /\ CountOf(report.ranges_normalized, stage.name)
         = Cardinality(RangeRows(stage.dates_out.cells))

\* a converted column with a range cell next to a cell that is no range
C11_Witness ==
  /\ NumericCommitted
  /\ \E i, j \in 1..Len(stage.dates_out.cells) :
       /\ stage.dates_out.cells[i] = Text("2-3")
       /\ ~IsNa(stage.dates_out.cells[j])
       /\ j \notin RangeRows(stage.dates_out.cells)

\* the number written before the percent sign
PercentNumber(s) ==
  LET body == SubSeq(s, 1, Len(s) - 1)
  IN IF Head(body) = "-" THEN DecNeg(DecimalVal(Tail(body))) ELSE DecimalVal(body)

\* the rows that pd.to_numeric or the range rule gave a number
NumericRows(cells) == {i \in 1..Len(cells) : ~IsNa(NumericValues(cells)[i])}

\* C12: in a column that parse_numeric converted, every cell whose cleaned
\* text is wholly [-]number% holds the number divided by 100 ("10%" gives
\* 0.1), and numeric_parsed of the column is the count of numerically parsed
\* cells plus the count of percent cells, no cell being in both counts, so
\* it is the number of non-missing cells of the result and never exceeds the
\* number of non-missing cells passed in.
C12_Percents ==
  NumericCommitted =>
    /\ \A i \in PercentRows(stage.dates_out.cells) :
         /\ stage.numeric_out.cells[i].k = "num"
         /\ SumIsTimes(PercentNumber(CleanNumericText(stage.dates_out.cells[i])),
                       Dec(0, 0), 100, stage.numeric_out.cells[i].v)
    /\ \A i \in 1..Len(stage.dates_out.cells) :
         stage.dates_out.cells[i] = Text("10%")
           => stage.numeric_out.cells[i] = Num([m |-> 1, e |-> 1])
    /\ PercentRows(stage.dates_out.cells) \cap NumericRows(stage.dates_out.cells) = {}
    /\ CountOf(report.numeric_parsed, stage.name)
         = Cardinality(NumericRows(stage.dates_out.cells))
           + Cardinality(PercentRows(stage.dates_out.cells))
    /\ CountOf(report.numeric_parsed, stage.name) = NotNaCount(stage.numeric_out.cells)
    /\ CountOf(report.numeric_parsed, stage.name) <= NotNaCount(stage.dates_out.cells)

\* a converted column with a percent cell and a plain number
C12_Witness ==
  /\ NumericCommitted
  /\ \E i, j \in 1..Len(stage.dates_out.cells) :
       /\ stage.dates_out.cells[i] = Text("10%")
       /\ stage.dates_out.cells[j] = Text("12")

\* (X): an opening parenthesis first, a closing one last, X not empty
FullyParenthesized(s) == Len(s) >= 3 /\ Head(s) = "(" /\ Ch(s, Len(s)) = ")"

\* C13: a cleaned value that is fully parenthesized, (X), is rewritten to
\* -X ("(12.34)" gives -12.34), and a value with characters before the
\* opening or after the closing parenthesis is not rewritten.
C13_Parentheses ==
  ReachedNumericParse =>
    \A i \in 1..Len(stage.dates_out.cells) :
      LET t == StrippedNumericText(stage.dates_out.cells[i])
      IN /\ FullyParenthesized(t)
              => CleanNumericText(stage.dates_out.cells[i])
                   = "-" \o SubSeq(t, 2, Len(t) - 1)
         /\ ~FullyParenthesized(t)
              => CleanNumericText(stage.dates_out.cells[i]) = t
         /\ (NumericCommitted /\ stage.dates_out.cells[i] = Text("(12.34)"))
              => stage.numeric_out.cells[i] = Num([m |-> 0 - 1234, e |-> 2])

\* digits,digits read with the comma as the decimal point
CommaAsPoint(s) ==
  LET i == CHOOSE j \in 1..Len(s) : Ch(s, j) = ","
  IN Dec(DigitsVal(SubSeq(s, 1, i - 1) \o SubSeq(s, i + 1, Len(s)), 0), Len(s) - i)

\* C14: in a column that parse_numeric converted, a cleaned value of the
\* exact shape digits,digits is read with the comma as decimal point ("12,5"
\* gives 12.5); every other value that is neither a range nor a percent is
\* read after all its commas are removed ("1,234.56" gives 1234.56).
C14_Commas ==
  NumericCommitted =>
    \A i \in 1..Len(stage.dates_out.cells) :
      LET c == CleanNumericText(stage.dates_out.cells[i])
      IN /\ CommaDecimalMatch(c)
              => stage.numeric_out.cells[i] = Num(CommaAsPoint(c))
         /\ (/\ ~CommaDecimalMatch(c)
             /\ i \notin RangeRows(stage.dates_out.cells)
             /\ i \notin PercentRows(stage.dates_out.cells))
              => stage.numeric_out.cells[i]
                   = ToNumeric(KeepChars(c, NumericAlphabet \ {","}))
         /\ stage.dates_out.cells[i] = Text("12,5")
              => stage.numeric_out.cells[i] = Num([m |-> 125, e |-> 1])
         /\ stage.dates_out.cells[i] = Text("1,234.56")
              => stage.numeric_out.cells[i] = Num([m |-> 123456, e |-> 2])

\* a converted column with a decimal comma and a thousands comma
C14_Witness ==
  /\ NumericCommitted
  /\ \E i, j \in 1..Len(stage.dates_out.cells) :
       /\ stage.dates_out.cells[i] = Text("12,5")
       /\ stage.dates_out.cells[j] = Text("1,234.56")

(***************************************************************************)
(* normalize_nulls, normalize_tags, normalize_column_name                  *)
(***************************************************************************)
\* C15: normalize_nulls makes every text cell whose trimmed, lower-cased
\* form is a null token missing and leaves every other cell as it is;
\* nulls_normalized of the column is the number of cells that went from
\* non-missing to missing.
C15_Nulls ==
  stage.seen =>
    /\ \A i \in 1..Len(stage.nulls_in.cells) :
         LET v == stage.nulls_in.cells[i]
         IN stage.nulls_out.cells[i]
              = IF IsStr(v) /\ StrLower(Strip(v.s)) \in NULL_TOKENS THEN Missing ELSE v
    /\ \A i \in 1..Len(stage.nulls_in.cells) :
         /\ stage.nulls_in.cells[i] = Text(" N/A ") => IsNa(stage.nulls_out.cells[i])
         /\ stage.nulls_in.cells[i] = Text("A1") => stage.nulls_out.cells[i] = Text("A1")
    /\ CountOf(report.nulls_normalized, stage.name)
         = Cardinality({i \in 1..Len(stage.nulls_in.cells) :
                          ~IsNa(stage.nulls_in.cells[i]) /\ IsNa(stage.nulls_out.cells[i])})
    /\ stage.name \in DOMAIN report.nulls_normalized

\* a column with a null token, a missing cell and a cell that stays
C15_Witness ==
  /\ stage.seen
  /\ \E i, j, k \in 1..Len(stage.nulls_in.cells) :
       /\ stage.nulls_in.cells[i] = Text(" N/A ")
       /\ stage.nulls_in.cells[j] = Text("A1")
       /\ IsNa(stage.nulls_in.cells[k])
  /\ report.nulls_normalized[stage.name] = 1

\* normalize_tags acts on the column: a text column whose name holds tag,
\* label or category
IsTagColumn ==
  /\ stage.seen
  /\ stage.tags_in.dtype = "object"
  /\ ContainsAny(stage.name, {"tag", "label", "category"})

\* the pieces of v between its separator characters, each trimmed and
\* lower-cased, in their order
TagPieces(v) ==
  LET bounds == {0, Len(v) + 1} \cup {i \in 1..Len(v) : Ch(v, i) \in {";", ",", "|", "/"}}
  IN [k \in 1..(Cardinality(bounds) - 1) |->
        StrLower(Strip(SubSeq(v, KthSmallest(bounds, k) + 1,
                              KthSmallest(bounds, k + 1) - 1)))]

NonEmptyPieces(v) == SelectSeq(TagPieces(v), LAMBDA p : p # "")

\* C16: in a tag column every text cell is split on comma, semicolon, pipe
\* or slash, each part is trimmed and lower-cased, empty parts are dropped
\* and the parts are joined by one semicolon ("VIP; Gift , wholesale"
\* gives "vip;gift;wholesale"); a cell without any part keeps its value,
\* and no cell is turned into the empty string.
C16_Tags ==
  IsTagColumn =>
    \A i \in 1..Len(stage.tags_in.cells) :
      LET v == stage.tags_in.cells[i]
          w == stage.tags_out.cells[i]
      IN /\ ~IsStr(v) => w = v
         /\ (IsStr(v) /\ NonEmptyPieces(v.s) # <<>>)
              => /\ IsStr(w)
                 /\ TagPieces(w.s) = NonEmptyPieces(v.s)
                 /\ \A j \in 1..Len(w.s) : Ch(w.s, j) \notin {",", "|", "/"}
         /\ (IsStr(v) /\ NonEmptyPieces(v.s) = <<>>) => w = v
         /\ (IsStr(v) /\ v.s # "") => w # Text("")
         /\ v = Text("VIP; Gift , wholesale") => w = Text("vip;gift;wholesale")

\* a tag column with the three-part cell and a cell made of a separator
C16_Witness ==
  /\ IsTagColumn
  /\ \E i, j \in 1..Len(stage.tags_in.cells) :
       /\ stage.tags_in.cells[i] = Text("VIP; Gift , wholesale")
       /\ stage.tags_out.cells[i] = Text("vip;gift;wholesale")
       /\ stage.tags_in.cells[j] = Text(";")
       /\ stage.tags_out.cells[j] = Text(";")

\* C17: normalize_column_name is idempotent: applied to a name it has
\* produced, it returns that name; the empty string maps to the empty
\* string.
C17_NameIdempotent ==
  MergeOver =>
    /\ \A i \in 1..Len(report.column_mapping) :
         normalize_column_name(report.column_mapping[i][2]) = report.column_mapping[i][2]
    /\ normalize_column_name("") = ""

(***************************************************************************)
(* parse_dates: the order of the two readings                              *)
(***************************************************************************)
\* parse_dates converted the column last treated
DatesCommitted ==
  /\ stage.seen
  /\ stage.dates_in.dtype = "object"
  /\ stage.dates_out.dtype = "datetime64"

\* the rows of the column whose text went to dateutil
DateAttemptRows ==
  {i \in 1..Len(stage.dates_in.cells) :
     IsStr(stage.dates_in.cells[i]) /\ ~IsNullToken(stage.dates_in.cells[i].s)}

\* C18 as stated: the month-first reading is used when it succeeds
\* ("03/04/2024" is 4 March), the day-first reading only after it failed,
\* and for "31/04/2024" the day-first reading succeeds with day 31 and
\* month 4.
C18_AsStated ==
  DatesCommitted =>
    \A i \in DateAttemptRows :
      LET t == collapse_whitespace(stage.dates_in.cells[i].s)
          w == stage.dates_out.cells[i]
      IN /\ ~IsNa(DateutilParse(t, FALSE)) => w = DateutilParse(t, FALSE)
         /\ t = "03/04/2024" => w = Ts(2024, 3, 4)
         /\ t = "31/04/2024" => (w.k = "ts" /\ w.d = 31 /\ w.m = 4)

\* C18, amended: in a column that parse_dates converts, the month-first
\* reading of a cell is used when it succeeds ("03/04/2024" is 4 March);
\* the day-first reading is used only when the month-first one failed
\* ("31/03" is 31 March of the current year); "31/04/2024" fails both
\* readings, there being no 31 April, and the cell is missing.
C18_FallbackOrder ==
  DatesCommitted =>
    \A i \in DateAttemptRows :
      LET t == collapse_whitespace(stage.dates_in.cells[i].s)
          w == stage.dates_out.cells[i]
      IN /\ ~IsNa(DateutilParse(t, FALSE)) => w = DateutilParse(t, FALSE)
         /\ (IsNa(DateutilParse(t, FALSE)) /\ ~IsNa(DateutilParse(t, TRUE)))
              => w = DateutilParse(t, TRUE)
         /\ t = "03/04/2024" => w = Ts(2024, 3, 4)
         /\ t = "31/03" => w = Ts(today, 3, 31)
         /\ t = "31/04/2024"
              => (/\ IsNa(DateutilParse(t, FALSE))
                  /\ IsNa(DateutilParse(t, TRUE))
                  /\ IsNa(w))

\* a converted column holding the three texts
C18_Witness ==
  /\ DatesCommitted
  /\ \E i, j, k \in 1..Len(stage.dates_in.cells) :
       /\ stage.dates_in.cells[i] = Text("03/04/2024")
       /\ stage.dates_in.cells[j] = Text("31/03")
       /\ stage.dates_out.cells[j] = Ts(today, 3, 31)
       /\ stage.dates_in.cells[k] = Text("31/04/2024")
       /\ IsNa(stage.dates_out.cells[k])

(***************************************************************************)
(* The column loop: dates before numbers, one column at a time             *)
(***************************************************************************)
\* C19: parse_numeric hands back unchanged a column that parse_dates
\* converted to timestamps, and no column name has an entry in dates_parsed
\* and one in numeric_parsed or ranges_normalized, a name that holds a date
\* keyword and a forced-numeric keyword included.
C19_DatesBeforeNumbers ==
  /\ DatesCommitted => stage.numeric_out = stage.dates_out
  /\ (DOMAIN report.dates_parsed)
       \cap (DOMAIN report.numeric_parsed \cup DOMAIN report.ranges_normalized) = {}

\* a column named with both keywords, converted to timestamps
C19_Witness ==
  /\ DatesCommitted
  /\ force_date(stage.name)
  /\ force_numeric(stage.name)
  /\ stage.name \in DOMAIN report.dates_parsed
  /\ stage.numeric_out.dtype = "datetime64"

\* the per-category counters of the report
CounterKeys ==
  {"nulls_normalized", "trimmed_values", "numeric_parsed", "ranges_normalized",
   "dates_parsed", "emails_normalized", "phones_normalized", "codes_normalized",
   "names_normalized", "tags_normalized", "status_normalized"}

\* lines 323-332 applied to one column alone, starting from an empty report
ColumnAlone(series, name) ==
  LET s1 == normalize_nulls(series, EmptyReport, name)
      s2 == trim_strings(s1.series, s1.report, name)
      s3 == normalize_emails(s2.series, s2.report, name)
      s4 == normalize_phones(s3.series, s3.report, name)
      s5 == normalize_codes(s4.series, s4.report, name)
      s6 == normalize_names(s5.series, s5.report, name)
      s7 == normalize_tags(s6.series, s6.report, name)
      s8 == normalize_status(s7.series, s7.report, name)
      s9 == parse_dates(s8.series, s8.report, name)
  IN parse_numeric(s9.series, s9.report, name)

\* the table the column loop starts from
LoopInput == MergeResult(Renamed(input), EmptyReport).df

\* the column loop has treated every column
LoopOver == pc = "columns" /\ col > Len(df.names)

\* one turn of the loop leaves every other column and every report entry
\* of another column as they were
TurnFrame ==
  (pc = "columns" /\ col' = col + 1) =>
    /\ df'.names = df.names
    /\ df'.n = df.n
    /\ \A k \in 1..Len(df.cols) : k # col => df'.cols[k] = df.cols[k]
    /\ \A key \in CounterKeys :
         /\ (DOMAIN report'[key]) \ {df.names[col]} = (DOMAIN report[key]) \ {df.names[col]}
         /\ \A c \in (DOMAIN report[key]) \ {df.names[col]} :
              report'[key][c] = report[key][c]
    /\ report'.column_mapping = report.column_mapping
    /\ report'.merged_columns = report.merged_columns
    /\ report'.duplicate_rows_removed = report.duplicate_rows_removed

\* after the loop every column and its counters are what the chain gives
\* for that column alone
LoopResult ==
  LoopOver =>
    \A k \in 1..Len(df.cols) :
      \A alone \in {ColumnAlone(LoopInput.cols[k], df.names[k])} :
        /\ df.cols[k] = alone.series
        /\ \A key \in CounterKeys :
             /\ df.names[k] \in DOMAIN report[key]
                  <=> df.names[k] \in DOMAIN alone.report[key]
             /\ df.names[k] \in DOMAIN report[key]
                  => report[key][df.names[k]] = alone.report[key][df.names[k]]

\* C20: in the column loop, treating column c leaves the cells of every
\* other column unchanged and writes only report entries keyed by c; the
\* final cells and counters of c are those its name and its own cells
\* after the merge give, whatever the other columns hold and whatever the
\* order of treatment.
C20_ColumnIndependence == [][TurnFrame]_vars /\ []LoopResult

\* two columns treated, both with counters, the second one converted
C20_Witness ==
  /\ LoopOver
  /\ Len(df.names) = 2
  /\ Cardinality(DOMAIN report.nulls_normalized) = 2
  /\ DOMAIN report.numeric_parsed = {df.names[2]}
  /\ \E i \in 1..Len(df.cols[1].cells) : IsStr(df.cols[1].cells[i])

\* while a clean_dataframe call is under way the table it was passed keeps
\* its column names and its cells
InputKept == pc \in {"clean", "columns"} => input' = input

\* the second of two calls on the same table has returned what the first
\* returned; report holds every field of the report but generated_at
SameResult ==
  entry = "repeat" /\ run = 2 /\ pc = "cleaned" =>
    /\ df = first.df
    /\ report = first.report

\* C21: clean_dataframe leaves the table it was passed unchanged, and two
\* calls on equal input tables return equal cleaned tables and reports
\* that are equal in every field except generated_at.
C21_Pure == [][InputKept]_vars /\ []SameResult

\* parse_numeric attempted the column last treated and returned it as it
\* was: the acceptance threshold of line 137 was not met
NumericRejected ==
  /\ ReachedNumericParse
  /\ stage.numeric_out = stage.dates_out

\* C22: when parse_numeric returns a column unchanged because the
\* acceptance threshold is not met, the report has no ranges_normalized
\* entry and no numeric_parsed entry for that column.
C22_RejectedLeavesNoCounter ==
  NumericRejected =>
    /\ stage.name \notin DOMAIN report.ranges_normalized
    /\ stage.name \notin DOMAIN report.numeric_parsed

\* the text cells of t whose trimmed, lower-cased form is a null token
Placeholders(t) ==
  {p \in (1..Len(t.cols)) \X (1..t.n) :
     /\ IsStr(t.cols[p[1]].cells[p[2]])
     /\ StrLower(Strip(t.cols[p[1]].cells[p[2]].s)) \in NULL_TOKENS}

\* C23: in the table clean_dataframe returns no text cell has a trimmed,
\* lower-cased form in the null-token set; a cell that becomes a null token
\* through a later stage of its column's chain is missing in the output.
C23_NoPlaceholder == pc = "cleaned" => Placeholders(df) = {}

====
